---- MODULE Spec2Model ----
(***************************************************************************)
(* Model of the sdf fit-result cache (sdf/result.py, Result.get) and of    *)
(* the model selector (fit.py, fit_results).                               *)
(*                                                                         *)
(* The file system is the shared state: the rawphot input files, and per   *)
(* (rawphot, model_comps) the multinest output (represented by its marker  *)
(* file <pmn_base>phys_live.points) and the pickle <pmn_base>.pkl.  One    *)
(* Python process calls Result.get; its functools.lru_cache table is the   *)
(* variable memo.  The environment may modify a rawphot file, remove the   *)
(* multinest output, and start a new process (which empties memo).         *)
(*                                                                         *)
(* Time is a logical clock: every write to the file system happens at a    *)
(* strictly later time than all earlier writes.  The plot files            *)
(* (corner.png, distributions.png) and the spectra are not modelled.       *)
(*                                                                         *)
(* Specifications:                                                         *)
(*   Spec      Result.get under the environment above                      *)
(*   SpecMoved Result.get on a cache that was copied from elsewhere        *)
(*   SpecFit   fit_results and its stopping rule                           *)
(*   SpecCmd   the command line loop of fit.py run by two workers          *)
(*   SpecInfo  Result.file_info as a function of its arguments             *)
(*   SpecDer   the star and disk results as functions of the sampler's     *)
(*             output                                                      *)
(***************************************************************************)
EXTENDS Integers, Sequences, FiniteSets, TLC

VARIABLES
    clock,      \* logical time of the latest file-system write
    rawMtime,   \* rawphot file -> os.path.getmtime(rawphot)
    hasPhot,    \* rawphot file -> whether read_sdb_file finds photometry
    dirs,       \* rawphot files whose pmn_dir exists
    mn,         \* key -> multinest output (marker phys_live.points) or NoFile
    pkl,        \* key -> pickle file or NoFile
    memo,       \* lru_cache table of Result.get: call arguments -> value
    calls,      \* number of Result.get calls the process has made
    pc,         \* position of the process inside Result.get
    frame,      \* local variables of the running (or last) Result.get call
    ret,        \* outcome of the last finished Result.get call
    fitRet,     \* outcome of the last fit_results call
    selEvs,     \* stopping rule: evidences of the results so far
    selLen,     \* stopping rule: len(f) of the current candidate
    selStop,    \* stopping rule: the decision taken
    cfg,        \* sdf.config: candidate families and star/disk lists
    workers,    \* command line: worker -> its file list, position and state
    locks,      \* the lock files that are held, and by which worker
    infoArgs,   \* file_info: the arguments of the calls under study
    infoRet,    \* file_info: what the calls produced
    derSelf,    \* star/disk results: the Result object they are called on
    derRet      \* star/disk results: what the call produced

vars == <<clock, rawMtime, hasPhot, dirs, mn, pkl, memo, calls, pc, frame, ret,
          fitRet, selEvs, selLen, selStop, cfg, workers, locks,
          infoArgs, infoRet, derSelf, derRet>>

fsVars == <<clock, rawMtime, hasPhot, dirs, mn, pkl>>
selVars == <<selEvs, selLen, selStop>>
cacheVars == <<memo, calls, pc, frame, ret>>
mainVars == <<workers, locks>>
infoVars == <<infoArgs, infoRet>>
derVars == <<derSelf, derRet>>
extVars == <<cfg, mainVars, infoVars, derVars>>

----------------------------------------------------------------------------
(* Bounds *)

MaxClock == 3
MaxCalls == 2

----------------------------------------------------------------------------
(* Configuration and inputs *)

\* A file name or path is the sequence of its characters (a configured
\* suffix or a component identifier counts as one character).
RawphotSuffix == <<"-", "r", "a", "w", "p", "h", "o", "t", ".", "t", "x", "t">>

\* the working directory of the processes
Cwd == <<"/", "d">>

\* the rawphot files Result.get and fit_results are called for
Targets == {Cwd \o <<"/", "a">> \o RawphotSuffix}

\* cfg.fitting['models']: the candidate families, in configured order
\* (single, double, triple component)
Models == << <<"star">>, <<"star", "disk">>, <<"star", "disk", "disk">> >>

\* the families Result.get is called with
Families == {Models[1], Models[2]}

\* sdf.config as installed: cfg.fitting['models'] and the lists cfg.models
DefaultCfg == [models |-> Models, star |-> {"star"}, disk |-> {"disk"},
               disk_r |-> {"disk"}]

\* cfg.fitting['pmn_dir_suffix'] and cfg.fitting['pmn_model_suffix']
pmn_dir_suffix == <<"-multinest">>
pmn_model_suffix == <<"_">>

\* global evidences the sampler may report
Evidences == {10, 12}

\* (rawphot, model_comps): one pmn_base, hence one marker and one pickle
Keys == Targets \X Families

\* the positional/keyword arguments of Result.get that the model varies
\* (nospec keeps its default)
Args == [rawphot : Targets, model_comps : Families,
         update_mn : BOOLEAN, update_an : BOOLEAN]

KeyOf(a) == <<a.rawphot, a.model_comps>>

----------------------------------------------------------------------------
(* Values *)

\* the object self after the attribute assignments in new
SetAttrs(self, new) ==
    [x \in DOMAIN self \cup DOMAIN new |->
        IF x \in DOMAIN new THEN new[x] ELSE self[x]]

NoFile == [kind |-> "nofile"]
NoEntry == [kind |-> "noentry"]
NoneVal == [kind |-> "None"]
FileNotFoundError == [kind |-> "FileNotFoundError"]
TypeError == [kind |-> "TypeError"]
SdfError == [kind |-> "SdfError"]
NotCalled == [kind |-> "notcalled"]

\* a computed Result object (the attributes the model follows)
\* obs stands for the observations: the version (mtime) of the rawphot file
\* they were read from
\* and pmn_mtime for the mtime of the marker file when its output was read
\* (self.mtime of line 137, which line 412 then overwrites)
MkResult(self, ev, obs, pmn_mtime, t) ==
    SetAttrs(self, [evidence |-> ev, obs |-> obs, pmn_mtime |-> pmn_mtime,
                    mtime |-> t])

MkFile(t, content) == [kind |-> "file", mtime |-> t, content |-> content]

exists(f) == f.kind = "file"

\* local state of one running Result.get call: its arguments, the version
\* of the rawphot file the photometry was read from (self.obs), run_mn and
\* the rawphot mtime line 121 compared
NoFrame == [args |-> NoEntry, obs |-> 0, run_mn |-> FALSE, rawseen |-> 0]

NewFrame(a) == [NoFrame EXCEPT !.args = a]

Outcome(a, v, how) == [args |-> a, val |-> v, via |-> how]

NoOutcome == Outcome(NoEntry, NoEntry, "notcalled")

----------------------------------------------------------------------------
(* Result.__init__ and Result.file_info *)

\* Result.__init__(self, rawphot, model_comps) called with two positional
\* arguments and the keyword arguments kwargs: any keyword is either
\* unexpected or a second value for a positional parameter, so Python raises
\* TypeError before the body runs; otherwise the body is file_info.
\* Lines 37-49: the tag of every component, in order, or SdfError at a
\* component that is in neither list (the star list is looked at first)
star_or_disk_all_star(model_comps) ==
    IF \E i \in DOMAIN model_comps : model_comps[i] \notin cfg.star \cup cfg.disk
    THEN SdfError
    ELSE [i \in DOMAIN model_comps |-> "star"]

unclassified(model_comps) ==
    \E i \in DOMAIN model_comps : model_comps[i] \notin cfg.star \cup cfg.disk

star_or_disk(model_comps) ==
    IF unclassified(model_comps)
    THEN SdfError
    ELSE [i \in DOMAIN model_comps |->
            IF model_comps[i] \in cfg.star THEN "star" ELSE "disk"]

\* os.path.dirname and os.path.basename (posixpath.split)
LastSlash(p) ==
    LET at == {i \in DOMAIN p : p[i] = "/"} IN
    IF at = {} THEN 0 ELSE CHOOSE i \in at : \A j \in at : j <= i

RECURSIVE rstrip_slashes(_)
rstrip_slashes(p) ==
    IF p # <<>> /\ p[Len(p)] = "/"
    THEN rstrip_slashes(SubSeq(p, 1, Len(p) - 1))
    ELSE p

dirname(p) ==
    LET head == SubSeq(p, 1, LastSlash(p)) IN
    IF rstrip_slashes(head) = <<>> THEN head ELSE rstrip_slashes(head)

basename(p) == SubSeq(p, LastSlash(p) + 1, Len(p))

\* os.path.abspath, for paths without '.' and '..' parts
abspath(p) ==
    IF p # <<>> /\ p[1] = "/" THEN p ELSE Cwd \o <<"/">> \o p

\* str.rstrip(chars): drops trailing characters as long as they are among
\* those of chars
RECURSIVE rstrip(_, _)
rstrip(s, chars) ==
    IF s # <<>> /\ s[Len(s)] \in {chars[i] : i \in DOMAIN chars}
    THEN rstrip(SubSeq(s, 1, Len(s) - 1), chars)
    ELSE s

\* '+'.join(model_comps)
RECURSIVE join_plus(_)
join_plus(comps) ==
    IF comps = <<>> THEN <<>>
    ELSE IF Len(comps) = 1 THEN comps
    ELSE <<comps[1], "+">> \o join_plus(Tail(comps))

file_info_not_refreshed(self, rawphot, model_comps) ==
    LET path == dirname(rawphot)
        id == rstrip(basename(rawphot), RawphotSuffix)
        pmn_dir == path \o <<"/">> \o id \o pmn_dir_suffix
        pmn_base == pmn_dir \o <<"/">> \o join_plus(model_comps)
                        \o pmn_model_suffix
    IN IF unclassified(model_comps) THEN SdfError
       ELSE IF "rawphot" \in DOMAIN self THEN self
       ELSE SetAttrs(self,
                [model_comps |-> model_comps,
                 star_or_disk |-> star_or_disk(model_comps),
                 n_comps |-> Len(model_comps), rawphot |-> rawphot,
                 path |-> path, id |-> id, pmn_dir |-> pmn_dir,
                 pmn_base |-> pmn_base, pickle |-> pmn_base \o <<".pkl">>])

\* file_info (lines 34-72), on a new or an existing object: the component
\* tags and the path-derived attributes
file_info(self, rawphot, model_comps) ==
    LET tags == star_or_disk(model_comps)
        path == dirname(rawphot)
        id == rstrip(basename(rawphot), RawphotSuffix)
        pmn_dir == path \o <<"/">> \o id \o pmn_dir_suffix
        pmn_base == pmn_dir \o <<"/">> \o join_plus(model_comps)
                        \o pmn_model_suffix
    IN IF unclassified(model_comps) THEN SdfError
       ELSE SetAttrs(self,
                [model_comps |-> model_comps, star_or_disk |-> tags,
                 n_comps |-> Len(model_comps), rawphot |-> rawphot,
                 path |-> path, id |-> id, pmn_dir |-> pmn_dir,
                 pmn_base |-> pmn_base, pickle |-> pmn_base \o <<".pkl">>])

Result_init(rawphot, model_comps, kwargs) ==
    IF kwargs # {}
    THEN TypeError
    ELSE file_info([kind |-> "Result"], rawphot, model_comps)

\* hasattr(res, 'obs')
hasattr_obs(res) == "obs" \in DOMAIN res

----------------------------------------------------------------------------
(* Result.get *)

\* Lines 84-88: "valid" returns the pickle, "stale" goes on to compute,
\* "error" is os.path.getmtime raising on the missing marker file.  Python's
\* `and` evaluates the marker's mtime only when the pickle is newer than the
\* rawphot file.
CacheCheck(a, pickle, rawt, marker) ==
    IF ~a.update_mn /\ ~a.update_an /\ exists(pickle)
    THEN IF pickle.mtime > rawt
         THEN IF ~exists(marker) THEN "error"
              ELSE IF pickle.mtime > marker.mtime THEN "valid" ELSE "stale"
         ELSE "stale"
    ELSE "stale"

\* Lines 119-123: whether the previous multinest output is to be deleted
run_mn(a, rawt, marker) ==
    a.update_mn \/ (exists(marker) /\ rawt > marker.mtime)

delete_nothing(files, k) == files

\* delete_multinest: glob(pmn_base+'*') matches the multinest output and the
\* pickle <pmn_base>.pkl of this (rawphot, model_comps), and nothing of
\* another family
delete_multinest(files, k) == [files EXCEPT ![k] = NoFile]

\* functools.lru_cache around get: the table after get returned v for a.
\* (Fewer than maxsize=128 distinct argument tuples exist, nothing is evicted.)
lru_store(table, a, v) == [table EXCEPT ![a] = v]

\* Lines 75-94: the lru_cache lookup, the constructor and the cache check
Get_call(a) ==
    LET k == KeyOf(a)
        self == Result_init(a.rawphot, a.model_comps, {})
        c == IF self = SdfError THEN "sdferror"
             ELSE CacheCheck(a, pkl[k], rawMtime[a.rawphot], mn[k])
        cached == file_info(pkl[k].content, a.rawphot, a.model_comps)
    IN
    /\ pc = "idle"
    /\ calls < MaxCalls
    /\ calls' = calls + 1
    /\ UNCHANGED <<clock, rawMtime, hasPhot, mn, pkl, fitRet, selVars, extVars>>
    /\ IF memo[a] # NoEntry
       THEN /\ ret' = Outcome(a, memo[a], "lru_cache")
            /\ UNCHANGED <<dirs, memo, pc, frame>>
       ELSE /\ dirs' = IF c = "sdferror" THEN dirs ELSE dirs \cup {a.rawphot}
            /\ CASE c = "valid" ->
                      /\ ret' = Outcome(a, cached, "pickle")
                      /\ memo' = lru_store(memo, a, cached)
                      /\ UNCHANGED <<pc, frame>>
                 [] c = "error" ->
                      /\ ret' = Outcome(a, FileNotFoundError, "raised")
                      /\ UNCHANGED <<memo, pc, frame>>
                 [] c = "sdferror" ->
                      /\ ret' = Outcome(a, SdfError, "raised")
                      /\ UNCHANGED <<memo, pc, frame>>
                 [] c = "stale" ->
                      /\ ret' = Outcome(a, NoEntry, "running")
                      /\ frame' = NewFrame(a)
                      /\ pc' = "phot"
                      /\ UNCHANGED memo

\* Lines 96-116: read the photometry; none means return None (which the
\* lru_cache stores like any other value)
Get_read_photometry ==
    LET a == frame.args IN
    /\ pc = "phot"
    /\ UNCHANGED <<fsVars, calls, fitRet, selVars, extVars>>
    /\ IF hasPhot[a.rawphot]
       THEN /\ frame' = [frame EXCEPT !.obs = rawMtime[a.rawphot]]
            /\ pc' = "prep"
            /\ UNCHANGED <<ret, memo>>
       ELSE /\ frame' = NoFrame
            /\ ret' = Outcome(a, NoneVal, "nophot")
            /\ memo' = lru_store(memo, a, NoneVal)
            /\ pc' = "idle"

\* Lines 118-126: decide run_mn and delete the previous output
Get_delete_previous ==
    LET a == frame.args
        k == KeyOf(a)
        r == run_mn(a, rawMtime[a.rawphot], mn[k])
    IN
    /\ pc = "prep"
    /\ frame' = [frame EXCEPT !.run_mn = r, !.rawseen = rawMtime[a.rawphot]]
    /\ mn' = IF r THEN delete_multinest(mn, k) ELSE mn
    /\ pkl' = IF r THEN delete_multinest(pkl, k) ELSE pkl
    /\ pc' = "sample"
    /\ UNCHANGED <<clock, rawMtime, hasPhot, dirs, memo, calls, ret, fitRet,
                   selVars, extVars>>

\* fitting.multinest: the sampler writes its output, with the marker
\* phys_live.points, for the observations in self.obs.  Started on existing
\* output it either resumes and leaves the files as they are, or writes them
\* again.
multinest(marker, obs, t, e, rewrite) ==
    IF exists(marker) /\ ~rewrite
    THEN marker
    ELSE MkFile(t, [evidence |-> e, obs |-> obs])

\* Lines 128-130
Get_multinest ==
    LET a == frame.args
        k == KeyOf(a)
    IN
    /\ pc = "sample"
    /\ \E e \in Evidences, rewrite \in BOOLEAN :
          LET out == multinest(mn[k], frame.obs, clock + 1, e, rewrite) IN
          /\ out # mn[k] => clock < MaxClock
          /\ mn' = [mn EXCEPT ![k] = out]
          /\ clock' = IF out # mn[k] THEN clock + 1 ELSE clock
    /\ pc' = "finish"
    /\ UNCHANGED <<rawMtime, hasPhot, dirs, pkl, memo, calls, frame, ret,
                   fitRet, selVars, extVars>>

pickle_sampler_time(now, marker_mtime) == marker_mtime

\* Lines 411-414: the pickle is written when the computation completes, so
\* its mtime is that time whatever the timestamps of the sampler's files
pickle_mtime(now, marker_mtime) == now

\* Lines 132-416: read the sampler's output (getmtime of the marker raises
\* if it is gone), derive the quantities, write the pickle and return self
Get_finish ==
    LET a == frame.args
        k == KeyOf(a)
        self == MkResult(Result_init(a.rawphot, a.model_comps, {}),
                         mn[k].content.evidence, frame.obs, mn[k].mtime,
                         clock + 1)
    IN
    /\ pc = "finish"
    /\ pc' = "idle"
    /\ frame' = NoFrame
    /\ UNCHANGED <<rawMtime, hasPhot, dirs, mn, calls, fitRet, selVars, extVars>>
    /\ IF exists(mn[k])
       THEN /\ clock < MaxClock
            /\ clock' = clock + 1
            /\ pkl' = [pkl EXCEPT ![k] =
                           MkFile(pickle_mtime(clock + 1, mn[k].mtime), self)]
            /\ memo' = lru_store(memo, a, self)
            /\ ret' = Outcome(a, self, "computed")
       ELSE /\ ret' = Outcome(a, FileNotFoundError, "raised")
            /\ UNCHANGED <<clock, pkl, memo>>

----------------------------------------------------------------------------
(* fit.py: fit_results *)

\* Lines 46-50: with np.max over the evidences of all results so far
SeqMax(s) == CHOOSE m \in {s[i] : i \in DOMAIN s} : \A i \in DOMAIN s : s[i] <= m

stop_adding(evs, flen) == flen > 1 /\ SeqMax(evs) # evs[Len(evs)]

\* result.sort_results: fitting.sort_evidence is outside the sources; the
\* results are put highest evidence first
RECURSIVE sort_results(_)
sort_results(results) ==
    IF results = <<>> THEN <<>>
    ELSE LET best == CHOOSE i \in DOMAIN results :
                        \A j \in DOMAIN results :
                            \/ results[j].evidence < results[i].evidence
                            \/ results[j].evidence = results[i].evidence /\ i <= j
             rest == [j \in 1..(Len(results) - 1) |->
                        IF j < best THEN results[j] ELSE results[j + 1]]
         IN <<results[best]>> \o sort_results(rest)

ResultList(results) == [kind |-> "list", items |-> results]

\* Lines 33-55: the loop over cfg.fitting['models'] from candidate i on.
\* Line 38 calls the constructor Result(file, f, update=..., nospec=...).
RECURSIVE fit_loop(_, _, _)
fit_loop(file, i, results) ==
    IF i > Len(cfg.models) THEN ResultList(sort_results(results))
    ELSE LET f == cfg.models[i]
             res == Result_init(file, f, {"update", "nospec"})
         IN IF res = TypeError THEN TypeError
            ELSE IF ~hasattr_obs(res) THEN NoneVal
            ELSE LET rs == Append(results, res)
                     evs == [j \in DOMAIN rs |-> rs[j].evidence]
                 IN IF stop_adding(evs, Len(f))
                    THEN ResultList(sort_results(rs))
                    ELSE fit_loop(file, i + 1, rs)

fit_results(file) == fit_loop(file, 1, <<>>)

\* A call fit_results(file), as the command line makes it (fit.py line 143)
Fit_results(file) ==
    /\ pc = "idle"
    /\ fitRet' = [file |-> file, val |-> fit_results(file)]
    /\ fitRet' # fitRet
    /\ UNCHANGED <<fsVars, memo, calls, pc, frame, ret, selVars, extVars>>

\* The stopping rule of lines 46-50 applied to the evidences selEvs of the
\* results so far and a candidate f with len(f) = selLen
Stop_decision ==
    /\ selStop = "undecided"
    /\ selStop' = IF stop_adding(selEvs, selLen) THEN "break" ELSE "continue"
    /\ UNCHANGED <<fsVars, memo, calls, pc, frame, ret, fitRet, selEvs,
                   selLen, extVars>>

\* Result(rawphot, model_comps) for each of the files of infoArgs, with the
\* lists of cfg.models as configured
File_info ==
    /\ infoRet = <<>>
    /\ infoRet' = [i \in DOMAIN infoArgs.rawphot |->
                      Result_init(infoArgs.rawphot[i], infoArgs.model_comps, {})]
    /\ UNCHANGED <<fsVars, cacheVars, fitRet, selVars, cfg, mainVars,
                   infoArgs, derVars>>

----------------------------------------------------------------------------
(* Result.get lines 177-195 and 375-377: the per-component parameters and  *)
(* the star and disk results                                               *)

UnboundLocalError == [kind |-> "UnboundLocalError"]

\* A parameter name is the sequence of its parts: 'log_Temp' is
\* <<"log_", "Temp">>.  `x in par` and par.replace(x, '') for a part x:
contains(par, x) == \E n \in DOMAIN par : par[n] = x

RECURSIVE without(_, _)
without(par, x) ==
    IF par = <<>> THEN <<>>
    ELSE IF par[1] = x THEN without(Tail(par), x)
    ELSE <<par[1]>> \o without(Tail(par), x)

pow10(x) == 10 ^ x

\* Lines 183-195: the slice of the vector v that belongs to component i,
\* every component taking its parameters and one normalisation
RECURSIVE offset(_, _)
offset(comp_parameters, i) ==
    IF i = 1 THEN 0
    ELSE offset(comp_parameters, i - 1) + Len(comp_parameters[i - 1]) + 1

comp_slice(v, comp_parameters, i) ==
    SubSeq(v, offset(comp_parameters, i) + 1,
           offset(comp_parameters, i) + Len(comp_parameters[i]) + 1)

\* the attributes of self that lines 177-201 set from the sampler's output
split_params(self) ==
    SetAttrs(self,
        [comp_best_params |->
            [i \in DOMAIN self.comp_parameters |->
                comp_slice(self.best_params, self.comp_parameters, i)],
         comp_best_params_1sig |->
            [i \in DOMAIN self.comp_parameters |->
                comp_slice(self.best_params_1sig, self.comp_parameters, i)],
         lstar_1pc_tot |-> 0])

\* a dict, given by the set of its items
Dict(items) == [kind |-> "dict", items |-> items]

dict_get(d, key) == (CHOOSE it \in d.items : it.key = key).val

dict_keys(d) == {it.key : it \in d.items}

\* star_results_one (lines 433-492): the parameters of component i (lines
\* 438-440 index the whole best-fit vector with j), the luminosity at 1pc
\* and, with a parallax, luminosity and radius (their values are not
\* followed: 1 stands for a positive number)
star_results_one(self, i) ==
    LET pars == self.comp_parameters[i] IN
    Dict(
    {[key |-> pars[j], val |-> self.best_params[j]] : j \in DOMAIN pars}
    \cup {[key |-> <<"e_">> \o pars[j], val |-> self.best_params_1sig[j]] :
            j \in DOMAIN pars}
    \cup {[key |-> <<"lstar_1pc">>, val |-> 1]}
    \cup (IF self.parallax
          THEN {[key |-> <<"lstar">>, val |-> 1], [key |-> <<"rstar">>, val |-> 1]}
          ELSE {}))

\* the components star_results (lines 419-430) goes through
star_comps(self) ==
    {i \in DOMAIN self.model_comps : self.model_comps[i] \in cfg.star}

\* the components disk_r_results (lines 495-506) goes through
disk_r_comps(self) ==
    {i \in DOMAIN self.model_comps : self.model_comps[i] \in cfg.disk_r}

\* disk_r_results_one (lines 509-579).  temp_dist is assigned only at a
\* parameter whose name has 'Temp' in it; line 570 reads it.
disk_r_results_one(self, i) ==
    LET pars == self.comp_parameters[i]
        par_in(j) == IF contains(pars[j], "log_")
                     THEN without(pars[j], "log_") ELSE pars[j]
        conv(j, x) == IF contains(pars[j], "log_") THEN pow10(x) ELSE x
        temp_dist_bound == \E j \in DOMAIN pars : contains(pars[j], "Temp")
        disk_r ==
            {[key |-> par_in(j), val |-> conv(j, self.comp_best_params[i][j])] :
                j \in DOMAIN pars}
            \cup {[key |-> <<"e_">> \o par_in(j),
                   val |-> conv(j, self.comp_best_params_1sig[i][j])] :
                    j \in DOMAIN pars}
            \cup {[key |-> <<"ldisk_1pc">>, val |-> 1]}
    IN IF self.lstar_1pc_tot > 0
       THEN IF self.parallax
            THEN IF temp_dist_bound
                 THEN Dict(disk_r \cup {[key |-> <<"ldisk_lstar">>, val |-> 1],
                                        [key |-> <<"rdisk_bb">>, val |-> 1]})
                 ELSE UnboundLocalError
            ELSE Dict(disk_r \cup {[key |-> <<"ldisk_lstar">>, val |-> 1]})
       ELSE Dict(disk_r)

\* Line 375: self.star = star_results(); every star adds its luminosity to
\* distributions['lstar_1pc_tot'] (line 458)
Star_results ==
    /\ derRet = NoEntry
    /\ derRet' = [kind |-> "star",
                  star |-> [i \in star_comps(derSelf) |->
                               star_results_one(derSelf, i)]]
    /\ derSelf' = [derSelf EXCEPT
                      !.lstar_1pc_tot = @ + Cardinality(star_comps(derSelf))]
    /\ UNCHANGED <<fsVars, cacheVars, fitRet, selVars, cfg, mainVars, infoVars>>

\* Line 376: self.disk_r = disk_r_results(); an exception in one component
\* is the outcome of the call
Disk_r_results ==
    LET one == [i \in disk_r_comps(derSelf) |-> disk_r_results_one(derSelf, i)]
    IN
    /\ derRet # NoEntry
    /\ derRet.kind = "star"
    /\ derRet' = IF \E i \in DOMAIN one : one[i] = UnboundLocalError
                 THEN UnboundLocalError
                 ELSE [kind |-> "disk_r", star |-> derRet.star, disk_r |-> one]
    /\ UNCHANGED <<fsVars, cacheVars, fitRet, selVars, cfg, mainVars, infoVars,
                   derSelf>>

----------------------------------------------------------------------------
(* fit.py: the command line loop (lines 117-157) *)

Workers == {"w1", "w2"}

\* Lines 120-122: the name the lock file of f is given
lock_file(f) == dirname(f) \o <<"/", ".sdf_lock-">> \o basename(f)

\* the file a name denotes for a process working in Cwd
resolve(p) == abspath(p)

\* the directories in which a worker may be unable to create a lock file
Unwritable == {<<"/">>}

IsError(v) == v.kind \in {"TypeError", "SdfError", "FileNotFoundError"}

PermissionError == [kind |-> "PermissionError"]

\* a worker: its list of files, the index of the current one, where it is,
\* the files it has results for and the exception that ended it
NoWorker == [files |-> <<>>, idx |-> 1, pc |-> "unused", fitted |-> {},
             raised |-> NoEntry]

current(w) == workers[w].files[workers[w].idx]

\* Line 124, lock.acquire(timeout = 0) when the lock is free: the worker
\* holds it and enters the processing section.  filelock creates the lock
\* file; where it may not, the open raises and the worker ends.
Main_acquire(w) ==
    LET l == resolve(lock_file(current(w))) IN
    /\ workers[w].pc = "loop"
    /\ workers[w].idx <= Len(workers[w].files)
    /\ \A h \in locks : h.lock # l
    /\ \/ /\ locks' = locks \cup {[lock |-> l, by |-> w]}
          /\ workers' = [workers EXCEPT ![w].pc = "inside"]
       \/ /\ dirname(l) \in Unwritable
          /\ workers' = [workers EXCEPT ![w].pc = "crashed",
                                         ![w].raised = PermissionError]
          /\ UNCHANGED locks
    /\ UNCHANGED <<fsVars, cacheVars, fitRet, selVars, cfg, infoVars, derVars>>

\* Lines 124 and 156-157, the lock is held: acquire raises filelock.Timeout
\* at once, the loop passes on to the next file
Main_timeout(w) ==
    LET l == resolve(lock_file(current(w))) IN
    /\ workers[w].pc = "loop"
    /\ workers[w].idx <= Len(workers[w].files)
    /\ \E h \in locks : h.lock = l
    /\ workers' = [workers EXCEPT ![w].idx = @ + 1]
    /\ UNCHANGED <<fsVars, cacheVars, fitRet, selVars, cfg, locks, infoVars,
                   derVars>>

\* Lines 126-154: the processing section.  The quick check of lines 130-140
\* is never taken (args.www and args.dbwrite cannot be false).  Leaving the
\* with block releases the lock, also when fit_results raises; only
\* filelock.Timeout is caught, so any other exception ends the worker.
Main_process(w) ==
    LET f == current(w)
        results == fit_results(abspath(f))
    IN
    /\ workers[w].pc = "inside"
    /\ locks' = {h \in locks : h.by # w}
    /\ workers' =
          IF IsError(results)
          THEN [workers EXCEPT ![w].pc = "crashed", ![w].raised = results]
          ELSE IF results = NoneVal
          THEN [workers EXCEPT ![w].pc = "loop", ![w].idx = @ + 1]
          ELSE [workers EXCEPT ![w].pc = "loop", ![w].idx = @ + 1,
                               ![w].fitted = @ \cup {abspath(f)}]
    /\ UNCHANGED <<fsVars, cacheVars, fitRet, selVars, cfg, infoVars, derVars>>

----------------------------------------------------------------------------
(* Environment *)

\* The rawphot file is modified (its content may change with it)
Touch(file) ==
    /\ clock < MaxClock
    /\ clock' = clock + 1
    /\ rawMtime' = [rawMtime EXCEPT ![file] = clock + 1]
    /\ \E p \in BOOLEAN : hasPhot' = [hasPhot EXCEPT ![file] = p]
    /\ UNCHANGED <<dirs, mn, pkl, memo, calls, pc, frame, ret, fitRet,
                   selVars, extVars>>

\* The multinest output of one (rawphot, model_comps) is removed while its
\* pickle stays (a cache copied or moved without the sampler's files)
Remove_multinest_output(k) ==
    /\ exists(mn[k])
    /\ mn' = [mn EXCEPT ![k] = NoFile]
    /\ UNCHANGED <<clock, rawMtime, hasPhot, dirs, pkl, memo, calls, pc,
                   frame, ret, fitRet, selVars, extVars>>

\* The process ends (or is killed inside a call) and a new one starts: its
\* lru_cache table is empty
New_process ==
    /\ calls > 0
    /\ memo' = [a \in Args |-> NoEntry]
    /\ calls' = 0
    /\ pc' = "idle"
    /\ frame' = NoFrame
    /\ ret' = NoOutcome
    /\ UNCHANGED <<fsVars, fitRet, selVars, extVars>>

----------------------------------------------------------------------------
(* Specifications *)

InitFiles ==
    /\ clock = 0
    /\ rawMtime = [f \in Targets |-> 0]
    /\ hasPhot \in [Targets -> BOOLEAN]
    /\ dirs = {}
    /\ mn = [k \in Keys |-> NoFile]
    /\ pkl = [k \in Keys |-> NoFile]
    /\ memo = [a \in Args |-> NoEntry]
    /\ calls = 0
    /\ pc = "idle"
    /\ frame = NoFrame
    /\ ret = NoOutcome
    /\ fitRet = [file |-> "", val |-> NotCalled]

InitSel ==
    /\ selEvs = <<>>
    /\ selLen = 0
    /\ selStop = "unused"

InitMain ==
    /\ workers = [w \in Workers |-> NoWorker]
    /\ locks = {}

InitInfo ==
    /\ infoArgs = <<>>
    /\ infoRet = <<>>

InitDer ==
    /\ derSelf = NoEntry
    /\ derRet = NoEntry

Init ==
    /\ InitFiles
    /\ InitSel
    /\ cfg = DefaultCfg
    /\ InitMain
    /\ InitInfo
    /\ InitDer

Next ==
    \/ \E a \in Args : Get_call(a)
    \/ Get_read_photometry
    \/ Get_delete_previous
    \/ Get_multinest
    \/ Get_finish
    \/ \E file \in Targets : Touch(file)
    \/ \E k \in Keys : Remove_multinest_output(k)
    \/ New_process

Spec == Init /\ [][Next]_vars

\* fit.py: fit_results called for a target, and the stopping rule as a
\* function of its inputs: every list of up to MaxResults evidences, every
\* candidate length up to MaxComps
MaxResults == 3
MaxComps == 3
EvidenceRange == 10..12

EvidenceLists == UNION {[1..n -> EvidenceRange] : n \in 1..MaxResults}

InitFit ==
    /\ InitFiles
    /\ selEvs \in EvidenceLists
    /\ selLen \in 1..MaxComps
    /\ selStop = "undecided"
    /\ cfg = DefaultCfg
    /\ InitMain
    /\ InitInfo
    /\ InitDer

NextFit ==
    \/ \E file \in Targets : Fit_results(file)
    \/ Stop_decision

SpecFit == InitFit /\ [][NextFit]_vars

\* fit.py run by two workers at once, each over its own list of up to
\* MaxFiles files; a file is named with its directory or, from the working
\* directory, by its bare name.  One candidate family may hold a component
\* that is in neither list of cfg.models.
MaxFiles == 2

MainPaths == {<<"a">> \o RawphotSuffix,
              Cwd \o <<"/", "a">> \o RawphotSuffix,
              Cwd \o <<"/", "b">> \o RawphotSuffix}

FileLists == UNION {[1..n -> MainPaths] : n \in 1..MaxFiles}

UnknownCfg == [DefaultCfg EXCEPT !.models = << <<"star">>, <<"star", "ring">> >>]

HasUnknown == \E i \in DOMAIN cfg.models : unclassified(cfg.models[i])

InitCmd ==
    /\ InitFiles
    /\ InitSel
    /\ cfg \in {DefaultCfg, UnknownCfg}
    /\ workers \in [Workers -> {[NoWorker EXCEPT !.files = fl, !.pc = "loop"] :
                                   fl \in FileLists}]
    /\ locks = {}
    /\ InitInfo
    /\ InitDer

NextCmd ==
    \/ \E w \in Workers : Main_acquire(w)
    \/ \E w \in Workers : Main_timeout(w)
    \/ \E w \in Workers : Main_process(w)

SpecCmd == InitCmd /\ [][NextCmd]_vars

\* Result.get on a cache that was computed, then moved or copied: the pickle
\* holds a result whose paths are those of the place it was computed in
\* (the present one, or OldDir), and the files have any mtimes up to MaxMtime
MaxMtime == 2

OldDir == <<"/", "o">>

StoredPaths == Targets \cup {OldDir \o <<"/", "a">> \o RawphotSuffix}

StoredResults ==
    {MkResult(file_info([kind |-> "Result"], p, f), e, 0, 0, 0) :
        p \in StoredPaths, f \in Families, e \in Evidences}

InitMoved ==
    /\ cfg = DefaultCfg
    /\ clock = MaxMtime
    /\ rawMtime \in [Targets -> 0..MaxMtime]
    /\ hasPhot = [f \in Targets |-> TRUE]
    /\ dirs = Targets
    /\ mn \in [Keys -> {MkFile(t, [evidence |-> e, obs |-> 0]) :
                            t \in 0..MaxMtime, e \in Evidences}]
    /\ pkl \in [Keys -> {MkFile(t, r) : t \in 0..MaxMtime, r \in StoredResults}]
    /\ \A k \in Keys : /\ pkl[k].content.model_comps = k[2]
                        /\ pkl[k].content.evidence = mn[k].content.evidence
    /\ memo = [a \in Args |-> NoEntry]
    /\ calls = 0
    /\ pc = "idle"
    /\ frame = NoFrame
    /\ ret = NoOutcome
    /\ fitRet = [file |-> "", val |-> NotCalled]
    /\ InitSel
    /\ InitMain
    /\ InitInfo
    /\ InitDer

NextMoved ==
    \/ \E a \in Args : Get_call(a)
    \/ Get_read_photometry
    \/ Get_delete_previous
    \/ Get_multinest
    \/ Get_finish

SpecMoved == InitMoved /\ [][NextMoved]_vars

\* The star and disk results as functions of the sampler's output: families
\* of one or two components, the best-fit vector and its 1-sigma vector
\* with values up to MaxValue, with or without a parallax
MaxValue == 2

DerFamilies == {<<"star">>, <<"disk">>, <<"star", "disk">>, <<"disk", "star">>,
                <<"star", "star">>}

\* the parameters of a component's model (the normalisation is not named)
ParametersOf(comp) ==
    IF comp = "star" THEN {<< <<"Teff">> >>}
    ELSE {<< <<"log_", "Temp">> >>, << <<"Temp">> >>, << <<"lam0">> >>}

NParams(cp) == offset(cp, Len(cp)) + Len(cp[Len(cp)]) + 1

InitDerCalls ==
    /\ InitFiles
    /\ InitSel
    /\ cfg = DefaultCfg
    /\ InitMain
    /\ InitInfo
    /\ \E f \in DerFamilies :
          \E cp \in [DOMAIN f -> UNION {ParametersOf(c) : c \in {"star", "disk"}}] :
             /\ \A i \in DOMAIN f : cp[i] \in ParametersOf(f[i])
             /\ \E best \in [1..NParams(cp) -> 1..MaxValue], plx \in BOOLEAN :
                   derSelf = split_params(
                                [model_comps |-> f, comp_parameters |-> cp,
                                 best_params |-> best,
                                 best_params_1sig |-> [n \in DOMAIN best |->
                                                          best[n] + MaxValue],
                                 parallax |-> plx])
    /\ derRet = NoEntry

NextDer == Star_results \/ Disk_r_results

SpecDer == InitDerCalls /\ [][NextDer]_vars

\* file_info as a function of its inputs: two rawphot files of one directory,
\* every tuple of up to MaxComps component identifiers, and star and disk
\* lists that share no identifier
CompIds == {"star", "disk", "ring"}

CompTuples == UNION {[1..n -> CompIds] : n \in 1..MaxComps}

InfoCfgs == {[DefaultCfg EXCEPT !.star = st, !.disk = dk] :
                st \in {{"star"}, {"star", "ring"}},
                dk \in {{"disk"}, {"disk", "ring"}}}

Stems == {<<"a">>, <<"s">>, <<"s", "a", "t">>, <<"s", "t", "a", "r">>,
          <<"s", "d", "b", "1">>}

InfoPaths == {Cwd \o <<"/">> \o st \o RawphotSuffix : st \in Stems}

InitInfoCalls ==
    /\ InitFiles
    /\ InitSel
    /\ cfg \in {c \in InfoCfgs : c.star \cap c.disk = {}}
    /\ InitMain
    /\ infoArgs \in [rawphot : [1..2 -> InfoPaths], model_comps : CompTuples]
    /\ infoRet = <<>>
    /\ InitDer

NextInfo == File_info

SpecInfo == InitInfoCalls /\ [][NextInfo]_vars

----------------------------------------------------------------------------
(* Properties of Result.get *)

\* a step in which Result.get is called with the arguments a
GetCallStep(a) == pc = "idle" /\ calls' = calls + 1 /\ ret'.args = a

NoFlags(a) == ~a.update_mn /\ ~a.update_an

\* the call goes on to compute: it reads the photometry next
Recomputes == pc' = "phot"

\* the pickle exists and is newer than the rawphot file and the marker file
ValidCond(a) ==
    LET k == KeyOf(a) IN
    /\ exists(pkl[k])
    /\ exists(mn[k])
    /\ pkl[k].mtime > rawMtime[a.rawphot]
    /\ pkl[k].mtime > mn[k].mtime

\* the call returns the result stored in the pickle, and computes nothing
ReturnsStored(a) ==
    /\ pc' = "idle"
    /\ ret'.val = file_info(pkl[KeyOf(a)].content, a.rawphot, a.model_comps)
    /\ UNCHANGED <<clock, mn, pkl>>

\* C1: without a forced-update flag, Result.get returns the stored result
\* without computing if and only if the pickle exists and is strictly newer
\* than both the rawphot file and the marker file; otherwise it recomputes.
C1_ValidIff ==
    [][\A a \in Args :
          GetCallStep(a) /\ NoFlags(a) =>
              IF ValidCond(a) THEN ReturnsStored(a) ELSE Recomputes]_vars

\* some file other than the rawphot file and the artifacts of a was written
\* after a's pickle
UnrelatedNewer(a) ==
    \E k \in Keys \ {KeyOf(a)} :
        \/ exists(pkl[k]) /\ pkl[k].mtime > pkl[KeyOf(a)].mtime
        \/ exists(mn[k]) /\ mn[k].mtime > pkl[KeyOf(a)].mtime

\* C2: once a pickle exists, a rawphot mtime later than the pickle's makes
\* the next Result.get recompute, also a call with the same arguments in the
\* same process; a later mtime of an unrelated file does not.
C2_Invalidation ==
    [][\A a \in Args :
          GetCallStep(a) =>
              /\ (exists(pkl[KeyOf(a)])
                    /\ rawMtime[a.rawphot] > pkl[KeyOf(a)].mtime) => Recomputes
              /\ (NoFlags(a) /\ ValidCond(a) /\ UnrelatedNewer(a))
                    => pc' = "idle"]_vars

\* C3: every Result.get call with update_mn or update_an set recomputes,
\* whatever artifact exists and whatever calls were made before.
C3_ForcedUpdate ==
    [][\A a \in Args :
          GetCallStep(a) /\ (a.update_mn \/ a.update_an) => Recomputes]_vars

\* C4: when the sampler is about to be started, no marker file older than
\* the rawphot mtime that line 121 read is left: such output was deleted.
C4_DeletedBeforeSampler ==
    pc = "sample" =>
        LET k == KeyOf(frame.args) IN
        exists(mn[k]) => mn[k].mtime >= frame.rawseen

\* the sampler is about to start after output older than the input was found
\* and deleted
C4_Witness ==
    /\ pc = "sample"
    /\ frame.run_mn
    /\ ~frame.args.update_mn
    /\ ~exists(mn[KeyOf(frame.args)])

\* C5: a pickle newer than the rawphot file whose marker file is missing
\* makes Result.get (called without flags, nothing memoized) recompute.
C5_MissingMarker ==
    [][\A a \in Args :
          (/\ GetCallStep(a)
           /\ NoFlags(a)
           /\ memo[a] = NoEntry
           /\ exists(pkl[KeyOf(a)])
           /\ pkl[KeyOf(a)].mtime > rawMtime[a.rawphot]
           /\ ~exists(mn[KeyOf(a)])) => Recomputes]_vars

\* the pickle was written by a run that read the present version of the
\* rawphot file, and the sampler output it read is still the one on disk
FirstRunIntact(a) ==
    LET k == KeyOf(a) IN
    /\ exists(pkl[k])
    /\ pkl[k].content.obs = rawMtime[a.rawphot]
    /\ exists(mn[k])
    /\ mn[k].mtime = pkl[k].content.pmn_mtime

C17_ValidIsFresh ==
    [][\A a \in Args :
          GetCallStep(a) /\ ret'.via = "pickle"
              => ret'.val.obs = rawMtime[a.rawphot]]_vars

----------------------------------------------------------------------------
(* Properties of fit_results *)

FitCalled == fitRet.val # NotCalled

\* C7: for a target with photometry fit_results returns a non-empty list of
\* computed results (with observations and evidence) for the configured
\* families in their order.
C7_FitReturnsResults ==
    FitCalled /\ hasPhot[fitRet.file] =>
        /\ fitRet.val.kind = "list"
        /\ Len(fitRet.val.items) >= 1
        /\ \A i \in DOMAIN fitRet.val.items :
              /\ hasattr_obs(fitRet.val.items[i])
              /\ "evidence" \in DOMAIN fitRet.val.items[i]
              /\ \E j \in DOMAIN Models :
                    fitRet.val.items[i].model_comps = Models[j]

\* C8: for a candidate of more than one component, the stop is decided
\* exactly when the candidate's evidence is not greater than the evidence of
\* the candidate just before it.
C8_StopRule ==
    selStop \in {"break", "continue"} /\ selLen > 1 =>
        (selStop = "break" <=>
            /\ Len(selEvs) > 1
            /\ selEvs[Len(selEvs)] <= selEvs[Len(selEvs) - 1])

\* C9: on the single, double, triple sequence (evidences 10, 12, 11)
\* fit_results returns the results of the single and the double family and
\* nothing of the triple.
C9_StopsAfterSecond ==
    FitCalled /\ hasPhot[fitRet.file] =>
        /\ fitRet.val.kind = "list"
        /\ {fitRet.val.items[i].model_comps : i \in DOMAIN fitRet.val.items}
              = {Models[1], Models[2]}

\* C10: for a rawphot file without photometry fit_results returns None and
\* raises nothing.
C10_NoPhotometry ==
    FitCalled /\ ~hasPhot[fitRet.file] => fitRet.val = NoneVal

----------------------------------------------------------------------------
(* Properties of the command line loop *)

Inside(w) == workers[w].pc = "inside"

\* C11: two workers are never inside the processing section for the same
\* rawphot file at the same time (and a worker that finds the lock held
\* passes on to its next file at once).
C11_OneWorkerPerFile ==
    \A w1, w2 \in Workers :
        (w1 # w2 /\ Inside(w1) /\ Inside(w2))
            => resolve(current(w1)) # resolve(current(w2))

\* the lock is held when a worker comes to it: the worker does not wait, it
\* moves to its next file without entering the section
SkipsHeldLock ==
    [][\A w \in Workers :
          (/\ workers[w].pc = "loop"
           /\ workers[w].idx <= Len(workers[w].files)
           /\ workers'[w] # workers[w]
           /\ \E h \in locks : h.lock = resolve(lock_file(current(w))))
          => /\ workers'[w].pc = "loop"
             /\ workers'[w].idx = workers[w].idx + 1
             /\ locks' = locks]_vars

\* C12: with a candidate family that holds a component in neither list, no
\* worker is ended by an error of fit_results: the other families of the
\* target are fitted and returned, and the worker goes on to the remaining
\* targets of its list.
C12_OnlyCandidateAborted ==
    HasUnknown =>
        \A w \in Workers : workers[w].raised \notin {TypeError, SdfError}

----------------------------------------------------------------------------
(* Properties of file_info *)

InfoCalled == infoRet # <<>>

PathFields == {"rawphot", "path", "id", "pmn_dir", "pmn_base", "pickle"}

\* the attributes file_info sets from the component tuple
CompFields == {"model_comps", "star_or_disk", "n_comps"}

\* C14: a result returned from the pickle has the path-derived fields of
\* the rawphot path and components of this call, whatever the pickle
\* stored, and every other attribute as the pickle stored it.
C14_PathsRefreshed ==
    ret.via = "pickle" =>
        LET a == ret.args
            stored == pkl[KeyOf(a)].content
        IN /\ ret.val.rawphot = a.rawphot
           /\ ret.val.path = dirname(a.rawphot)
           /\ ret.val.id = rstrip(basename(a.rawphot), RawphotSuffix)
           /\ ret.val.pmn_dir = dirname(a.rawphot) \o <<"/">> \o ret.val.id
                                  \o pmn_dir_suffix
           /\ ret.val.pmn_base = ret.val.pmn_dir \o <<"/">>
                                   \o join_plus(a.model_comps)
                                   \o pmn_model_suffix
           /\ ret.val.pickle = ret.val.pmn_base \o <<".pkl">>
           /\ DOMAIN ret.val = DOMAIN stored
           /\ \A x \in DOMAIN stored \ (PathFields \cup CompFields) :
                 ret.val[x] = stored[x]

\* a pickle computed in another directory has been returned as valid
C14_Witness ==
    /\ ret.via = "pickle"
    /\ pkl[KeyOf(ret.args)].content.rawphot # ret.args.rawphot
    /\ pkl[KeyOf(ret.args)].content.pmn_dir # ret.val.pmn_dir
    /\ ret.val.evidence = pkl[KeyOf(ret.args)].content.evidence

----------------------------------------------------------------------------
(* Properties of the star and disk results *)

StarCalled == derRet # NoEntry /\ derRet # UnboundLocalError

\* C15: for every star component i and parameter j of it, star_results_one
\* reports comp_best_params[i][j] and comp_best_params_1sig[i][j], also for
\* a star that is not the first component.
C15_StarOwnSlice ==
    StarCalled =>
        \A i \in DOMAIN derRet.star :
            \A j \in DOMAIN derSelf.comp_parameters[i] :
                LET par == derSelf.comp_parameters[i][j] IN
                /\ dict_get(derRet.star[i], par) = derSelf.comp_best_params[i][j]
                /\ dict_get(derRet.star[i], <<"e_">> \o par)
                      = derSelf.comp_best_params_1sig[i][j]

DiskCalled == derRet = UnboundLocalError \/ derRet.kind = "disk_r"

NoTemp(i) ==
    \A j \in DOMAIN derSelf.comp_parameters[i] :
        ~contains(derSelf.comp_parameters[i][j], "Temp")

\* C16: disk_r_results_one ends without error, and for a disk component
\* without temperature parameter (star luminosity and parallax present) the
\* result has no rdisk_bb; rdisk_bb is there only with a parallax and a
\* disk temperature parameter.
C16_NoTempNoRadius ==
    DiskCalled =>
        /\ derRet # UnboundLocalError
        /\ \A i \in DOMAIN derRet.disk_r :
              <<"rdisk_bb">> \in dict_keys(derRet.disk_r[i])
                  => derSelf.parallax /\ ~NoTemp(i)

\* s with exactly the trailing suffix taken off
strip_suffix(s, suffix) ==
    IF /\ Len(s) >= Len(suffix)
       /\ SubSeq(s, Len(s) - Len(suffix) + 1, Len(s)) = suffix
    THEN SubSeq(s, 1, Len(s) - Len(suffix))
    ELSE s

\* C18: two rawphot files of one directory with different basenames get
\* different id, pmn_dir and pickle, the id being the basename without
\* exactly the suffix '-rawphot.txt'.
C18_DistinctLocations ==
    (InfoCalled /\ infoRet[1] # SdfError) =>
        /\ \A n \in DOMAIN infoRet :
              infoRet[n].id = strip_suffix(basename(infoArgs.rawphot[n]),
                                           RawphotSuffix)
        /\ basename(infoArgs.rawphot[1]) # basename(infoArgs.rawphot[2])
              => /\ infoRet[1].id # infoRet[2].id
                 /\ infoRet[1].pmn_dir # infoRet[2].pmn_dir
                 /\ infoRet[1].pickle # infoRet[2].pickle

====
